---- MODULE Spec2Model ----
(***************************************************************************)
(* Model of the result-resolution and geometry code of AdSnap Studio       *)
(* (src/app.py): the polling of pending result URLs kept in the Streamlit  *)
(* session state, the normalisation of the API's response shapes, and the  *)
(* pixel-region computation of the generative-fill and erase tabs.         *)
(***************************************************************************)
EXTENDS Integers, Sequences, FiniteSets, TLC

(***************************************************************************)
(* Bounds of the model                                                     *)
(***************************************************************************)
\* references of one API response are 1..MaxNormRefs
MaxNormRefs == 5
\* items of a nested "result" list
MaxItems == 2
\* the "Number of Results" / "Number of variations" sliders are explored up to here
MaxResults == 4
\* the submissions of a session request up to MaxPending results
MaxPending == 3

\* images are explored up to MaxDim x MaxDim pixels
MaxDim == 4
\* the ratio sliders are explored on the grid 0/RatioDen .. RatioDen/RatioDen
RatioDen == 10

\* the four expansion sliders are explored from 0.0 up to MaxExpand / ExpandDen
MaxExpand == 5

\* the expansion sliders step by 0.1: their values are n / ExpandDen
ExpandDen == 10

\* st.session_state.edited_image = None
None == 0

Range(s) == {s[i] : i \in 1..Len(s)}

Min(a, b) == IF a <= b THEN a ELSE b

\* s[:n] of Python, for n >= 0
Take(s, n) == SubSeq(s, 1, Min(n, Len(s)))

\* a is obtained from b by deleting elements (relative order kept)
RECURSIVE IsSubSeq(_, _)
IsSubSeq(a, b) ==
    IF a = <<>> THEN TRUE
    ELSE IF b = <<>> THEN FALSE
    ELSE IF Head(a) = Head(b) THEN IsSubSeq(Tail(a), Tail(b))
    ELSE IsSubSeq(a, Tail(b))

(***************************************************************************)
(* The readiness probe: requests.head(url) answers 200, answers another    *)
(* status, or raises.                                                      *)
(***************************************************************************)
ProbeOutcomes == {"200", "404", "exception"}

\* response.status_code == 200, reached only when requests.head returned
ProbeReady(o) == o = "200"

\* the outcomes of one pass: one probe per position of the pending list
ProbeRuns(urls) == [1..Len(urls) -> ProbeOutcomes]

\* ready_images of check_generated_images: the urls whose probe succeeded
RECURSIVE ReadyImagesFrom(_, _, _)
ReadyImagesFrom(urls, probe, i) ==
    IF i > Len(urls) THEN <<>>
    ELSE (IF ProbeReady(probe[i]) THEN <<urls[i]>> ELSE <<>>)
         \o ReadyImagesFrom(urls, probe, i + 1)

\* variant: the ready urls are collected in the opposite order
ReadyImagesReversed(urls, probe) ==
    LET r == ReadyImagesFrom(urls, probe, 1) IN [i \in 1..Len(r) |-> r[Len(r) + 1 - i]]
ReadyImages(urls, probe) == ReadyImagesFrom(urls, probe, 1)

\* still_pending of check_generated_images: non-200 and raising probes
RECURSIVE StillPendingFrom(_, _, _)
StillPendingFrom(urls, probe, i) ==
    IF i > Len(urls) THEN <<>>
    ELSE (IF ProbeReady(probe[i]) THEN <<>> ELSE <<urls[i]>>)
         \o StillPendingFrom(urls, probe, i + 1)

\* variants of still_pending: every url is kept; the urls whose probe raised
\* are dropped
StillPendingKeepsReady(urls, probe) == urls
StillPendingDropsRaised(urls, probe) ==
    SelectSeq(StillPendingFrom(urls, probe, 1),
              LAMBDA u : \E i \in 1..Len(urls) : urls[i] = u /\ probe[i] # "exception")
StillPending(urls, probe) == StillPendingFrom(urls, probe, 1)

(***************************************************************************)
(* API responses.  A response is None, a dict, or another value; a dict    *)
(* has any of the keys "result_url", "result_urls", "urls", "result"; the  *)
(* value of "result" is a list of items or something else; an item is a    *)
(* dict with "urls", a list, or anything else.                             *)
(***************************************************************************)
Keys == {"result_url", "result_urls", "urls", "result"}

NormRefs == 1..MaxNormRefs

\* the value of a singular "result_url": a reference no list holds
SingularRef == MaxNormRefs + 1

Reverse(s) == [i \in 1..Len(s) |-> s[Len(s) + 1 - i]]

Ascending == [i \in 1..MaxNormRefs |-> i]

\* the reference lists the responses carry: prefixes of 1..N and of N..1
UrlLists == {SubSeq(o, 1, n) : o \in {Ascending, Reverse(Ascending)}, n \in 0..MaxNormRefs}

ItemTypes == {"dict_urls", "list", "other"}

\* an item of a nested list; an "other" item carries no reference list
Item(t, l) == [type |-> t, urls |-> IF t = "other" THEN <<>> ELSE l]

\* the nested lists of m items whose reference lists, concatenated, give l
NestedOf(l, m) ==
    {[j \in 1..m |-> Item(t[j], SubSeq(l, (IF j = 1 THEN 0 ELSE c[j - 1]) + 1,
                                          IF j = m THEN Len(l) ELSE c[j]))] :
        c \in {d \in [1..(m - 1) -> 0..Len(l)] :
                  \A j \in 1..(m - 2) : d[j] <= d[j + 1]},
        t \in [1..m -> ItemTypes]}

NestedLists == UNION {NestedOf(l, m) : l \in UrlLists, m \in 0..MaxItems}

Dict(keys, nested_is_list, flat, nested) ==
    [type           |-> "dict",
     keys           |-> keys,
     result_url     |-> SingularRef,
     result_urls    |-> flat,
     urls           |-> Reverse(flat),
     result_is_list |-> nested_is_list,
     result         |-> nested]

\* None, and a truthy value that is no dict
NoneResponse == [Dict({}, FALSE, <<>>, <<>>) EXCEPT !.type = "none"]
OtherResponse == [Dict({}, FALSE, <<>>, <<>>) EXCEPT !.type = "other"]

\* one recognised shape alone, in all its varieties
SingleShape ==
    {Dict({"result_url"}, FALSE, <<>>, <<>>)}
    \cup {Dict({k}, FALSE, l, <<>>) : k \in {"result_urls", "urls"}, l \in UrlLists}
    \cup {Dict({"result"}, TRUE, <<>>, n) : n \in NestedLists}
    \cup {Dict({"result"}, FALSE, <<>>, <<>>)}

\* several shapes at once
MultiShape ==
    {Dict(ks, TRUE, l, <<Item("dict_urls", l)>>) :
        ks \in {x \in SUBSET Keys : Cardinality(x) >= 2}, l \in UrlLists}

\* a dict with none of the four keys: {} and one with other keys only
NoShape == {Dict({}, FALSE, <<>>, <<>>), Dict({"status"}, FALSE, <<>>, <<>>)}

Responses == {NoneResponse, OtherResponse} \cup NoShape \cup SingleShape \cup MultiShape

\* the responses the asynchronous submissions of a session are drawn from
SubmitResponses ==
    {NoneResponse, OtherResponse} \cup NoShape
    \cup {Dict({"urls"}, FALSE, l, <<>>) : l \in UrlLists}
    \cup {Dict({"result"}, TRUE, <<>>, n) : n \in UNION {NestedOf(l, 1) : l \in UrlLists}}

\* "if result:"
Truthy(r) == r.type = "other" \/ (r.type = "dict" /\ r.keys # {})

\* isinstance(result, dict)
IsDict(r) == r.type = "dict"

\* "key" in result
Has(r, key) == key \in r.keys

\* "result" in result and isinstance(result["result"], list)
HasResultList(r) == Has(r, "result") /\ r.result_is_list

(***************************************************************************)
(* Asynchronous normalisation of the lifestyle tabs (by text and by image) *)
(***************************************************************************)
\* the loop over result["result"]: extend urls by the item's list, break when
\* len(urls) >= num_results
RECURSIVE ExtendFromItems(_, _, _, _)
ExtendFromItems(items, i, acc, k) ==
    IF i > Len(items) THEN acc
    ELSE LET item == items[i]
             ext == IF item.type \in {"dict_urls", "list"}
                      THEN acc \o item.urls ELSE acc
         IN  IF Len(ext) >= k THEN ext ELSE ExtendFromItems(items, i + 1, ext, k)

\* variant: the list is not sliced
FlatUrlsAll(r, k) == r.urls

\* variant: the slice is one reference too long
FlatUrlsOneMore(r, k) == Take(r.urls, k + 1)

\* result["urls"][:num_results]
FlatUrls(r, k) == Take(r.urls, k)

\* variant: the list built by the loop is not trimmed
NestedUrlsUntrimmed(r, k) == ExtendFromItems(r.result, 1, <<>>, k)

\* the nested branch: the loop, then urls = urls[:num_results]
NestedUrls(r, k) == Take(ExtendFromItems(r.result, 1, <<>>, k), k)

\* the local urls before "if urls:"
LifestyleAsyncUrls(r, k) ==
    IF ~IsDict(r) THEN <<>>
    ELSE IF Has(r, "urls") THEN FlatUrls(r, k)
    ELSE IF HasResultList(r) THEN NestedUrls(r, k)
    ELSE <<>>

(***************************************************************************)
(* Synchronous normalisation (generate tab, lifestyle tabs)                *)
(***************************************************************************)
Shown(image, msg) == [edited_image |-> image, message |-> msg]

\* the loop over result["result"] that shows the first item's first reference;
\* item["urls"][0] of an empty list raises IndexError
RECURSIVE FirstOfItems(_, _, _)
FirstOfItems(items, i, edited) ==
    IF i > Len(items) THEN Shown(edited, "none")
    ELSE LET item == items[i]
         IN  IF item.type = "dict_urls"
               THEN IF item.urls = <<>> THEN Shown(edited, "error")
                    ELSE Shown(item.urls[1], "success")
             ELSE IF item.type = "list" /\ Len(item.urls) > 0
               THEN Shown(item.urls[1], "success")
             ELSE FirstOfItems(items, i + 1, edited)

\* s[0], which raises IndexError on an empty list; the handler's except shows it
FirstOf(s, edited) ==
    IF s = <<>> THEN Shown(edited, "error") ELSE Shown(s[1], "success")

\* the generate tab: "if result:" ... "No valid result format found"
GenerateNormalize(r, edited) ==
    IF ~Truthy(r) THEN Shown(edited, "none")
    ELSE IF IsDict(r)
      THEN IF Has(r, "result_url") THEN Shown(r.result_url, "success")
           ELSE IF Has(r, "result_urls") THEN FirstOf(r.result_urls, edited)
           ELSE IF HasResultList(r) THEN FirstOfItems(r.result, 1, edited)
           ELSE Shown(edited, "none")
      ELSE Shown(edited, "error")

\* the lifestyle tabs with sync_mode
LifestyleSyncNormalize(r, edited) ==
    IF ~Truthy(r) THEN Shown(edited, "none")
    ELSE IF IsDict(r)
      THEN IF Has(r, "result_url") THEN Shown(r.result_url, "success")
           ELSE IF Has(r, "result_urls") THEN FirstOf(r.result_urls, edited)
           ELSE IF HasResultList(r) THEN FirstOfItems(r.result, 1, edited)
           ELSE IF Has(r, "urls") THEN FirstOf(r.urls, edited)
           ELSE Shown(edited, "none")
      ELSE Shown(edited, "none")

\* the generative fill tab with sync_mode: a non-empty "urls" is tried before
\* "result_url"; a response that is no dict either supports "in" (a list, a
\* string: nothing matches) or raises TypeError (a number: the handler's except)
GenerativeFillSyncNormalize(r, edited, generated) ==
    IF ~Truthy(r) THEN {[edited_image |-> edited, generated_images |-> generated,
                         message |-> "none"]}
    ELSE IF ~IsDict(r)
      THEN {[edited_image |-> edited, generated_images |-> generated, message |-> m] :
               m \in {"none", "error"}}
    ELSE IF Has(r, "urls") /\ r.urls # <<>>
      THEN {[edited_image     |-> r.urls[1],
             generated_images |-> IF Len(r.urls) > 1 THEN r.urls ELSE generated,
             message          |-> "success"]}
    ELSE IF Has(r, "result_url")
      THEN {[edited_image |-> r.result_url, generated_images |-> generated,
             message |-> "success"]}
    ELSE {[edited_image |-> edited, generated_images |-> generated, message |-> "none"]}

(***************************************************************************)
(* Python floats (IEEE 754 binary64), as far as the geometry uses them:    *)
(* non-negative values below 2^15 that are multiples of 2^-75, held as     *)
(* Limbs digits of LimbBits bits, least significant first; the last digit  *)
(* is the integer part.  Every operation rounds its exact result to        *)
(* Mantissa significant bits, ties to even.                                *)
(***************************************************************************)
Mantissa == 53
LimbBits == 15
Limbs == 6
LimbBase == 2^LimbBits

Zero == [i \in 1..Limbs |-> 0]

\* float(n) of an int n
FromInt(n) == [Zero EXCEPT ![Limbs] = n]

\* int(a): truncation toward zero
Trunc(a) == a[Limbs]

\* exact sum
RECURSIVE CarryInto(_, _, _)
CarryInto(a, b, i) ==
    IF i = 1 THEN 0 ELSE (a[i - 1] + b[i - 1] + CarryInto(a, b, i - 1)) \div LimbBase

BigAdd(a, b) == [i \in 1..Limbs |-> (a[i] + b[i] + CarryInto(a, b, i)) % LimbBase]

\* exact product with an int w
RECURSIVE MulCarryInto(_, _, _)
MulCarryInto(a, w, i) ==
    IF i = 1 THEN 0 ELSE (a[i - 1] * w + MulCarryInto(a, w, i - 1)) \div LimbBase

BigMul(a, w) == [i \in 1..Limbs |-> (a[i] * w + MulCarryInto(a, w, i)) % LimbBase]

\* quotient and remainder of the division by an int d
RECURSIVE RemAfter(_, _, _)
RemAfter(a, d, i) ==
    IF i > Limbs THEN 0 ELSE (RemAfter(a, d, i + 1) * LimbBase + a[i]) % d

BigDiv(a, d) == [i \in 1..Limbs |-> (RemAfter(a, d, i + 1) * LimbBase + a[i]) \div d]

RECURSIVE BitsOf(_)
BitsOf(n) == IF n = 0 THEN 0 ELSE 1 + BitsOf(n \div 2)

BitLength(a) ==
    IF a = Zero THEN 0
    ELSE LET t == CHOOSE i \in 1..Limbs : a[i] # 0 /\ \A j \in (i + 1)..Limbs : a[j] = 0
         IN  LimbBits * (t - 1) + BitsOf(a[t])

\* bit k of a (bit 0 is the least significant)
Bit(a, k) == (a[k \div LimbBits + 1] \div 2^(k % LimbBits)) % 2

\* the bits below bit k are all 0
LowZero(a, k) ==
    \A i \in 1..Limbs :
        /\ i < k \div LimbBits + 1 => a[i] = 0
        /\ i = k \div LimbBits + 1 => a[i] % 2^(k % LimbBits) = 0

\* a with the bits below bit k set to 0
ClearLow(a, k) ==
    [i \in 1..Limbs |->
        IF i < k \div LimbBits + 1 THEN 0
        ELSE IF i = k \div LimbBits + 1 THEN a[i] - (a[i] % 2^(k % LimbBits))
        ELSE a[i]]

Pow2Big(k) == [Zero EXCEPT ![k \div LimbBits + 1] = 2^(k % LimbBits)]

\* the float nearest to the exact value a (plus a positive amount below its last
\* bit when sticky), ties to even
Round(a, sticky) ==
    LET s == BitLength(a) - Mantissa
    IN  IF s <= 0 THEN a
        ELSE LET up == Bit(a, s - 1) = 1
                          /\ (~LowZero(a, s - 1) \/ sticky \/ Bit(a, s) = 1)
                 down == ClearLow(a, s)
             IN  IF up THEN BigAdd(down, Pow2Big(s)) ELSE down

\* the float a slider at the decimal n/d yields: the one nearest to n/d
Decimal(n, d) == Round(BigDiv(FromInt(n), d), RemAfter(FromInt(n), d, 1) # 0)

\* a + b of two floats
FAdd(a, b) == Round(BigAdd(a, b), FALSE)

\* w * a of an int w and a float a
FMul(w, a) == Round(BigMul(a, w), FALSE)

(***************************************************************************)
(* Pixel regions of the generative fill and erase tabs.  A slider value is *)
(* the float nearest to n / RatioDen; int(dimension * ratio) truncates the  *)
(* float product.                                                          *)
(***************************************************************************)
\* the image sizes the regions are computed for
RegionWidths == (1..MaxDim) \cup {1000}
RegionHeights == (1..MaxDim) \cup {800}

\* int(dimension * ratio) for every image size and slider position
PixelTable ==
    [dimension \in RegionWidths \cup RegionHeights, ratio \in 0..RatioDen |->
        Trunc(FMul(dimension, Decimal(ratio, RatioDen)))]

\* int(original_width * x_start_ratio), and the same for the other three
PixelOf(dimension, ratio) == PixelTable[dimension, ratio]

\* variant: the region is not clipped at the far edges
GenerativeFillRegionUnclipped(width, height, xr, yr, wr, hr) ==
    [x_start     |-> PixelOf(width, xr),
     y_start     |-> PixelOf(height, yr),
     mask_width  |-> PixelOf(width, wr),
     mask_height |-> PixelOf(height, hr)]

\* variant: the start is moved back so that the unclipped size fits
GenerativeFillRegionClipStart(width, height, xr, yr, wr, hr) ==
    LET mw == PixelOf(width, wr)
        mh == PixelOf(height, hr)
    IN  [x_start |-> Min(PixelOf(width, xr), width - mw),
         y_start |-> Min(PixelOf(height, yr), height - mh),
         mask_width |-> mw, mask_height |-> mh]

\* the generative fill tab: "Calculate pixel values", "Ensure mask doesn't go
\* out of bounds"
GenerativeFillRegion(width, height, xr, yr, wr, hr) ==
    LET xs == PixelOf(width, xr)
        ys == PixelOf(height, yr)
        mw == PixelOf(width, wr)
        mh == PixelOf(height, hr)
        x_end == Min(xs + mw, width)
        y_end == Min(ys + mh, height)
    IN  [x_start |-> xs, y_start |-> ys,
         mask_width |-> x_end - xs, mask_height |-> y_end - ys]

\* the erase tab: the same computation, written out again there
EraseRegion(width, height, xr, yr, wr, hr) ==
    LET xs == PixelOf(width, xr)
        ys == PixelOf(height, yr)
        mw == PixelOf(width, wr)
        mh == PixelOf(height, hr)
        x_end == Min(xs + mw, width)
        y_end == Min(ys + mh, height)
    IN  [x_start |-> xs, y_start |-> ys,
         mask_width |-> x_end - xs, mask_height |-> y_end - ys]

(***************************************************************************)
(* The masks of the generative fill and erase tabs: an image of mode 'L'   *)
(* maps every pixel (x, y), 0 <= x < width, 0 <= y < height, to a value.   *)
(***************************************************************************)
Pixels(width, height) == (0..(width - 1)) \X (0..(height - 1))

\* variant: the mask starts white
NewImageWhite(width, height) ==
    [pixels |-> [p \in Pixels(width, height) |-> 255], raised |-> FALSE]

\* Image.new('L', (original_width, original_height), color=0)
NewImage(width, height) ==
    [pixels |-> [p \in Pixels(width, height) |-> 0], raised |-> FALSE]

\* mask_img.putpixel((x, y), 255); outside the image it raises IndexError, which
\* ends the script run
PutPixel(img, x, y) ==
    IF img.raised THEN img
    ELSE IF <<x, y>> \in DOMAIN img.pixels
      THEN [img EXCEPT !.pixels[<<x, y>>] = 255]
    ELSE [img EXCEPT !.raised = TRUE]

\* for y in range(y_start, y_start + mask_height): putpixel
RECURSIVE DrawColumn(_, _, _, _)
DrawColumn(img, x, y, y_end) ==
    IF y >= y_end THEN img
    ELSE DrawColumn(PutPixel(img, x, y), x, y + 1, y_end)

\* for x in range(x_start, x_start + mask_width): the loop over y
RECURSIVE DrawRectangle(_, _, _, _, _)
DrawRectangle(img, x, x_end, y, y_end) ==
    IF x >= x_end THEN img
    ELSE DrawRectangle(DrawColumn(img, x, y, y_end), x + 1, x_end, y, y_end)

\* variant: the ranges of the two loops include their end
GenerativeFillMaskInclusive(width, height, region) ==
    DrawRectangle(NewImage(width, height),
                  region.x_start, region.x_start + region.mask_width + 1,
                  region.y_start, region.y_start + region.mask_height + 1)

\* mask_img of the generative fill tab
GenerativeFillMask(width, height, region) ==
    DrawRectangle(NewImage(width, height),
                  region.x_start, region.x_start + region.mask_width,
                  region.y_start, region.y_start + region.mask_height)

\* variant: the erase mask is black inside the region and white outside
EraseMaskInverted(width, height, region) ==
    LET m == DrawRectangle(NewImage(width, height),
                           region.x_start, region.x_start + region.mask_width,
                           region.y_start, region.y_start + region.mask_height)
    IN  [m EXCEPT !.pixels = [p \in DOMAIN m.pixels |-> 255 - m.pixels[p]]]

\* mask_img of the erase tab
EraseMask(width, height, region) ==
    DrawRectangle(NewImage(width, height),
                  region.x_start, region.x_start + region.mask_width,
                  region.y_start, region.y_start + region.mask_height)

(***************************************************************************)
(* The expansion tab: canvas size and position of the original image       *)
(***************************************************************************)
\* the image sizes the placements are computed for: the small ones, 800 x 600,
\* and 45, the smallest size at which a float product of the placement falls
\* below the integer it stands for
ExpandWidths == (1..MaxDim) \cup {45, 800}
ExpandHeights == (1..MaxDim) \cup {45, 600}

\* int(dimension * (1 + before + after)) for every size and slider position
CanvasTable ==
    [dimension \in ExpandWidths \cup ExpandHeights,
     before \in 0..MaxExpand, after \in 0..MaxExpand |->
        Trunc(FMul(dimension, FAdd(FAdd(FromInt(1), Decimal(before, ExpandDen)),
                                   Decimal(after, ExpandDen))))]

\* int(dimension * before) for every size and slider position
LocationTable ==
    [dimension \in ExpandWidths \cup ExpandHeights, before \in 0..MaxExpand |->
        Trunc(FMul(dimension, Decimal(before, ExpandDen)))]

\* new_width = int(original_width * (1 + left_expand_ratio + right_expand_ratio))
NewDimension(dimension, before, after) == CanvasTable[dimension, before, after]

\* variant: the position is measured to the far edge of the original image
OriginalOffsetFar(dimension, before) == LocationTable[dimension, before] + dimension

\* original_x = int(original_width * left_expand_ratio)
OriginalOffset(dimension, before) == LocationTable[dimension, before]

\* variant: the position is computed from the right and bottom ratios
ExpansionPlacementSwapped(width, height, left, right, top, bottom) ==
    [canvas_size             |-> <<NewDimension(width, left, right),
                                   NewDimension(height, top, bottom)>>,
     original_image_size     |-> <<width, height>>,
     original_image_location |-> <<OriginalOffset(width, right),
                                   OriginalOffset(height, bottom)>>]

\* "Calculate new canvas dimensions and original image position"
ExpansionPlacement(width, height, left, right, top, bottom) ==
    [canvas_size             |-> <<NewDimension(width, left, right),
                                   NewDimension(height, top, bottom)>>,
     original_image_size     |-> <<width, height>>,
     original_image_location |-> <<OriginalOffset(width, left),
                                   OriginalOffset(height, top)>>]

(***************************************************************************)
(* services/image_expansion.py: expand_image and expand_image_by_url.      *)
(* Bytes and strings are strings here, "" the empty one.                   *)
(***************************************************************************)
\* what requests.post and the lines after it do: a 2xx answer with a JSON
\* body, an answer raise_for_status() rejects, or no answer
Replies == {"json", "http_error", "request_error"}

\* the outcome of a call: the payloads handed to requests.post, the exception
\* that left the function, the value it returned
Outcome(posts, exception, value) ==
    [posted |-> posts, raised |-> exception, returned |-> value]

\* the try block: requests.post(url, headers=headers, json=data) and what follows
Post(api_token, data, reply) ==
    Outcome(<<[api_token |-> api_token, json |-> data]>>,
            IF reply = "json" THEN "none" ELSE "Exception",
            IF reply = "json" THEN "json" ELSE "none")

\* variant: the check of image_data is missing
ExpandImageUnchecked(key, data, canvas, size, location, sync_flag, reply) ==
    Post(key, [file |-> [base64 |-> data], canvas_size |-> canvas,
               original_image_size |-> size, original_image_location |-> location,
               sync |-> sync_flag], reply)

\* expand_image
ExpandImage(key, data, canvas, size, location, sync_flag, reply) ==
    IF data = ""
      THEN Outcome(<<>>, "ValueError", "none")
      ELSE Post(key, [file |-> [base64 |-> data], canvas_size |-> canvas,
                      original_image_size |-> size, original_image_location |-> location,
                      sync |-> sync_flag], reply)

\* expand_image_by_url
ExpandImageByUrl(key, url, canvas, size, location, sync_flag, reply) ==
    IF url = ""
      THEN Outcome(<<>>, "ValueError", "none")
      ELSE Post(key, [image_url |-> url, canvas_size |-> canvas,
                      original_image_size |-> size, original_image_location |-> location,
                      sync |-> sync_flag], reply)

(***************************************************************************)
(* The lifestyle shot tab: the widgets and the assembly of the call of     *)
(* lifestyle_shot_by_text / lifestyle_shot_by_image.  A str is the         *)
(* sequence of its characters.                                             *)
(***************************************************************************)
UpperCase == <<"A", "B", "C", "D", "E", "F", "G", "H", "I", "J", "K", "L", "M", "N", "O", "P", "Q", "R", "S", "T", "U", "V", "W", "X", "Y", "Z">>
LowerCase == <<"a", "b", "c", "d", "e", "f", "g", "h", "i", "j", "k", "l", "m", "n", "o", "p", "q", "r", "s", "t", "u", "v", "w", "x", "y", "z">>

\* str.lower()
Lower(str) ==
    [i \in 1..Len(str) |->
        IF \E k \in 1..Len(UpperCase) : UpperCase[k] = str[i]
          THEN LowerCase[CHOOSE k \in 1..Len(UpperCase) : UpperCase[k] = str[i]]
          ELSE str[i]]

\* str.replace(old, new) for one-character old and new
Replace(str, old, new) == [i \in 1..Len(str) |-> IF str[i] = old THEN new ELSE str[i]]

\* label.lower().replace(" ", "_")
ApiName(label) == Replace(Lower(label), " ", "_")

\* the options of st.selectbox("Placement Type", ...)
Original == <<"O", "r", "i", "g", "i", "n", "a", "l">>
Automatic == <<"A", "u", "t", "o", "m", "a", "t", "i", "c">>
ManualPlacement == <<"M", "a", "n", "u", "a", "l", " ", "P", "l", "a", "c", "e", "m", "e", "n", "t">>
ManualPadding == <<"M", "a", "n", "u", "a", "l", " ", "P", "a", "d", "d", "i", "n", "g">>
CustomCoordinates == <<"C", "u", "s", "t", "o", "m", " ", "C", "o", "o", "r", "d", "i", "n", "a", "t", "e", "s">>

PlacementTypes == {Original, Automatic, ManualPlacement, ManualPadding, CustomCoordinates}

\* options of st.multiselect("Select Positions", ...): the first, one of the
\* middle and one of the last
UpperLeft == <<"U", "p", "p", "e", "r", " ", "L", "e", "f", "t">>
BottomRight == <<"B", "o", "t", "t", "o", "m", " ", "R", "i", "g", "h", "t">>
CenterVertical == <<"C", "e", "n", "t", "e", "r", " ", "V", "e", "r", "t", "i", "c", "a", "l">>

\* what the multiselect can return: the options chosen, in the order chosen
PositionChoices ==
    {<<>>, <<UpperLeft>>, <<BottomRight>>, <<CenterVertical, UpperLeft>>,
     <<UpperLeft, BottomRight, CenterVertical>>}

\* st.number_input("Left Padding", 0, 1000, 0) and the other three: the ends
\* of the range
PadValues == {0, 1000}

\* st.number_input("Width", 100, 2000, 1000), ("Height", 100, 2000, 1000): the
\* ends of the range and the default
ShotValues == {100, 1000, 2000}

\* st.number_input("Product Width", 50, 1000, 500), ("Product Height", ...)
ForegroundSizes == {50, 500}

\* st.number_input("X Position", -500, 1500, 0), ("Y Position", ...)
ForegroundPositions == {-500, 0, 1500}

\* a local name of main() that an executed assignment bound to a value, and one
\* that no executed statement assigned; reading the latter raises NameError
Bound(value) == [bound |-> TRUE, value |-> value]
Unbound == [bound |-> FALSE, value |-> <<>>]

\* an argument that is None, and one that is a value
Null == <<>>
Value(v) == <<v>>

\* the widgets of the lifestyle tab that exist for a placement type: the
\* if / elif chain of column 1 and the if of column 2
WidgetsOf(type) ==
    {[positions   |-> IF type = ManualPlacement THEN Bound(p) ELSE Unbound,
      pads        |-> IF type = ManualPadding THEN Bound(d) ELSE Unbound,
      shot        |-> IF type \in {Automatic, CustomCoordinates} THEN Bound(z) ELSE Unbound,
      fg_size     |-> IF type = CustomCoordinates THEN Bound(g) ELSE Unbound,
      fg_location |-> IF type = CustomCoordinates THEN Bound(l) ELSE Unbound] :
        p \in IF type = ManualPlacement THEN PositionChoices ELSE {<<>>},
        d \in IF type = ManualPadding THEN PadValues \X PadValues \X PadValues \X PadValues
                                      ELSE {<<>>},
        z \in IF type \in {Automatic, CustomCoordinates} THEN ShotValues \X ShotValues
                                                         ELSE {<<>>},
        g \in IF type = CustomCoordinates THEN ForegroundSizes \X ForegroundSizes ELSE {<<>>},
        l \in IF type = CustomCoordinates
                THEN {<<x, x>> : x \in ForegroundPositions} \cup {<<0, 1500>>}
                ELSE {<<>>}}

\* "Convert placement selections to API format"
ManualPlacements(type, w) ==
    IF type = ManualPlacement
      THEN [i \in 1..Len(w.positions.value) |-> ApiName(w.positions.value[i])]
      ELSE <<ApiName(UpperLeft)>>

\* variant: the foreground arguments get a default instead of None
LifestyleArgumentsForegroundDefault(type, w) ==
    [placement_type             |-> ApiName(type),
     shot_size                  |-> IF type # Original THEN w.shot.value ELSE <<1000, 1000>>,
     manual_placement_selection |-> Value(ManualPlacements(type, w)),
     padding_values             |-> IF type = ManualPadding THEN Value(w.pads.value)
                                                            ELSE Value(<<0, 0, 0, 0>>),
     foreground_image_size      |-> IF type = CustomCoordinates THEN Value(w.fg_size.value)
                                                                ELSE Value(<<0, 0>>),
     foreground_image_location  |-> IF type = CustomCoordinates
                                      THEN Value(w.fg_location.value) ELSE Value(<<0, 0>>)]

\* the keyword arguments of the call that depend on the placement type, in the
\* order they are evaluated; shot_width is read first
LifestyleArguments(type, w) ==
    [placement_type             |-> ApiName(type),
     shot_size                  |-> IF type # Original THEN w.shot.value ELSE <<1000, 1000>>,
     manual_placement_selection |-> Value(ManualPlacements(type, w)),
     padding_values             |-> IF type = ManualPadding THEN Value(w.pads.value)
                                                            ELSE Value(<<0, 0, 0, 0>>),
     foreground_image_size      |-> IF type = CustomCoordinates THEN Value(w.fg_size.value)
                                                                ELSE Null,
     foreground_image_location  |-> IF type = CustomCoordinates
                                      THEN Value(w.fg_location.value) ELSE Null]

\* the names the call reads that are not bound for this placement type
ReadUnbound(type, w) ==
    (IF type # Original /\ ~w.shot.bound THEN {"shot_width"} ELSE {})
    \cup (IF type = ManualPlacement /\ ~w.positions.bound THEN {"positions"} ELSE {})
    \cup (IF type = ManualPadding /\ ~w.pads.bound THEN {"pad_left"} ELSE {})
    \cup (IF type = CustomCoordinates /\ ~w.fg_size.bound THEN {"fg_width"} ELSE {})
    \cup (IF type = CustomCoordinates /\ ~w.fg_location.bound THEN {"fg_x"} ELSE {})

(***************************************************************************)
(* Session state (initialize_session_state) and the position of the one    *)
(* script run that submits and polls                                       *)
(***************************************************************************)
VARIABLES
    pending_urls,      \* st.session_state.pending_urls
    edited_image,      \* st.session_state.edited_image (None or a reference)
    generated_images,  \* st.session_state.generated_images
    pc,                \* "idle", "polling" (inside auto_check_images), "returned"
    attempt,           \* the local attempt of auto_check_images
    auto_result,       \* what the last auto_check_images returned
    submitted,         \* history: the pending list the last submission stored
    ready_hist,        \* history: the references found ready since that submission
    probes,            \* history: probes made per reference since that submission
    passes,            \* history: passes made by the running auto_check_images
    last_pending,      \* history: the pending list before the last pass
    last_ready,        \* history: ready_images of the last pass
    last_return,       \* history: what the last check_generated_images returned
    manual,            \* history: the refresh button of this script run was handled
    result,            \* the API response handed to a normalisation
    num_results,       \* the requested number of results
    site,              \* which normalisation was applied to result ("none": not yet)
    urls,              \* the local urls of the asynchronous normalisation
    message,           \* st.success / st.error / nothing shown by the normalisation
    original_width,    \* original_image.size of the uploaded image
    original_height,
    x_start_ratio,     \* the four sliders, as numerators over RatioDen
    y_start_ratio,
    mask_width_ratio,
    mask_height_ratio,
    tab,               \* the tab whose mask was computed ("none": not yet)
    x_start,           \* the pixel region the tab computed
    y_start,
    mask_width,
    mask_height,
    mask_img,          \* the mask the tab drew
    api_key,           \* st.session_state.api_key ("": None or empty)
    left_expand_ratio, \* the four expansion sliders, as numerators over ExpandDen
    right_expand_ratio,
    top_expand_ratio,
    bottom_expand_ratio,
    canvas_size,       \* the placement the expansion tab computed
    original_image_size,
    original_image_location,
    expand,            \* "none", or how "Expand Image" ended
    image_data,        \* the arguments of a call of the expansion service
    image_url,
    sync,
    called,            \* the function of the service that was called ("none": not yet)
    posted,            \* history: the payloads handed to requests.post
    raised,            \* the exception that left the called function, or "none"
    shot_type,         \* st.radio("Shot Type", ...)
    placement_type,    \* st.selectbox("Placement Type", ...)
    widgets,           \* positions, pad_*, shot_*, fg_*: bound or not
    prompt,            \* st.text_area("Describe the environment")
    ref_image,         \* st.file_uploader("Upload Reference Image") ("": none)
    lifestyle,         \* "none", or how "Generate Lifestyle Shot" ended
    lifestyle_calls,   \* history: the arguments of the calls of lifestyle_shot_by_*
    loop,              \* position in one call of check_generated_images
    index,             \* the urls of pending_urls the for loop has handled
    loop_ready,        \* the local ready_images
    loop_pending,      \* the local still_pending
    head_outcomes,     \* history: what requests.head did, per iteration
    returned,          \* the value the call returned
    on_entry           \* history: the session state when the call began

pollVars == <<pc, attempt, auto_result, submitted, ready_hist, probes, passes,
              last_pending, last_ready, last_return, manual>>

normVars == <<result, num_results, site, urls, message>>

geomVars == <<original_width, original_height, x_start_ratio, y_start_ratio,
              mask_width_ratio, mask_height_ratio, tab, x_start, y_start,
              mask_width, mask_height, mask_img>>

expandVars == <<api_key, left_expand_ratio, right_expand_ratio, top_expand_ratio,
                bottom_expand_ratio, canvas_size, original_image_size,
                original_image_location, expand, image_data, image_url, sync, called,
                posted, raised>>

requestVars == <<shot_type, placement_type, widgets, prompt, ref_image, lifestyle,
                 lifestyle_calls>>

passVars == <<loop, index, loop_ready, loop_pending, head_outcomes, returned, on_entry>>

vars == <<pending_urls, edited_image, generated_images, pollVars, normVars, geomVars,
          expandVars, requestVars, passVars>>

\* max_attempts = 3 of auto_check_images
max_attempts == 3

(***************************************************************************)
(* check_generated_images                                                  *)
(***************************************************************************)
\* variant: the last ready image is displayed
NewEditedImageLast(ready, edited) ==
    IF ready # <<>> THEN ready[Len(ready)] ELSE edited

\* st.session_state.edited_image after a pass with these ready_images
NewEditedImage(ready, edited) ==
    IF ready # <<>> THEN ready[1] ELSE edited

\* variant: the list is stored whatever its length
NewGeneratedImagesAlways(ready, generated) == ready

\* st.session_state.generated_images after a pass with these ready_images
NewGeneratedImages(ready, generated) ==
    IF ready # <<>> /\ Len(ready) > 1 THEN ready ELSE generated

\* the session state after check_generated_images, and its return value
CheckGeneratedImages(pending, edited, generated, probe) ==
    IF pending # <<>>
        THEN LET ready_images == ReadyImages(pending, probe)
                 still_pending == StillPending(pending, probe)
             IN  [pending_urls     |-> still_pending,
                  edited_image     |-> NewEditedImage(ready_images, edited),
                  generated_images |-> NewGeneratedImages(ready_images, generated),
                  ready            |-> ready_images,
                  return           |-> ready_images # <<>>]
        ELSE [pending_urls     |-> pending,
              edited_image     |-> edited,
              generated_images |-> generated,
              ready            |-> <<>>,
              return           |-> FALSE]

\* one probe was made for every url of the pending list
Probed(pending) ==
    [r \in NormRefs |-> probes[r] + Cardinality({i \in 1..Len(pending) : pending[i] = r})]

\* the effect of one call of check_generated_images on the state and the history
Pass(probe) ==
    LET c == CheckGeneratedImages(pending_urls, edited_image, generated_images, probe)
    IN  /\ pending_urls' = c.pending_urls
        /\ edited_image' = c.edited_image
        /\ generated_images' = c.generated_images
        /\ ready_hist' = ready_hist \cup Range(c.ready)
        /\ probes' = Probed(pending_urls)
        /\ last_pending' = pending_urls
        /\ last_ready' = c.ready
        /\ last_return' = c.return

(***************************************************************************)
(* auto_check_images                                                       *)
(***************************************************************************)
\* variants of the loop condition: one attempt more, one attempt less
LoopContinuesFourth(a, pending) == a <= max_attempts /\ pending # <<>>
LoopContinuesShort(a, pending) == a < max_attempts - 1 /\ pending # <<>>

\* the condition of the while loop
LoopContinues(a, pending) == a < max_attempts /\ pending # <<>>

\* variant: attempt is not incremented
AutoCheckPassKeepsAttempt ==
    /\ pc = "polling"
    /\ LoopContinues(attempt, pending_urls)
    /\ \E probe \in ProbeRuns(pending_urls) :
          /\ Pass(probe)
          /\ IF last_return'
                THEN /\ pc' = "returned"
                     /\ auto_result' = TRUE
                     /\ attempt' = attempt
                ELSE /\ pc' = "polling"
                     /\ auto_result' = auto_result
                     /\ attempt' = attempt
    /\ passes' = passes + 1
    /\ UNCHANGED <<submitted, manual, normVars, geomVars, expandVars, requestVars, passVars>>

\* one iteration: time.sleep(2), check_generated_images(), return True or attempt += 1
AutoCheckPass ==
    /\ pc = "polling"
    /\ LoopContinues(attempt, pending_urls)
    /\ \E probe \in ProbeRuns(pending_urls) :
          /\ Pass(probe)
          /\ IF last_return'
                THEN /\ pc' = "returned"
                     /\ auto_result' = TRUE
                     /\ attempt' = attempt
                ELSE /\ pc' = "polling"
                     /\ auto_result' = auto_result
                     /\ attempt' = attempt + 1
    /\ passes' = passes + 1
    /\ UNCHANGED <<submitted, manual, normVars, geomVars, expandVars, requestVars, passVars>>

\* variant: the jobs that are not ready are discarded when the loop ends
AutoCheckReturnDiscards ==
    /\ pc = "polling"
    /\ ~LoopContinues(attempt, pending_urls)
    /\ pc' = "returned"
    /\ auto_result' = FALSE
    /\ pending_urls' = <<>>
    /\ UNCHANGED <<edited_image, generated_images, attempt, submitted,
                   ready_hist, probes, passes, last_pending, last_ready, last_return,
                   manual, normVars, geomVars, expandVars, requestVars, passVars>>

\* the loop condition fails: return False
AutoCheckReturn ==
    /\ pc = "polling"
    /\ ~LoopContinues(attempt, pending_urls)
    /\ pc' = "returned"
    /\ auto_result' = FALSE
    /\ UNCHANGED <<pending_urls, edited_image, generated_images, attempt, submitted,
                   ready_hist, probes, passes, last_pending, last_ready, last_return,
                   manual, normVars, geomVars, expandVars, requestVars, passVars>>

\* "if auto_check_images(...): st.experimental_rerun()" ends the script run when
\* the automatic check returned True; otherwise the refresh button is evaluated
\* once, and when it reports a click check_generated_images() runs once more.
ManualCheck ==
    /\ pc = "returned"
    /\ auto_result = FALSE
    /\ manual = 0
    /\ \E probe \in ProbeRuns(pending_urls) : Pass(probe)
    /\ manual' = 1
    /\ UNCHANGED <<pc, attempt, auto_result, submitted, passes, normVars, geomVars, expandVars, requestVars, passVars>>

(***************************************************************************)
(* The asynchronous submissions: the response is normalised, the pending   *)
(* list is stored and auto_check_images starts                             *)
(***************************************************************************)
\* variant: the new urls are added to the pending list
StartPollingAppends(u) ==
    /\ pending_urls' = pending_urls \o u
    /\ pc' = "polling"
    /\ attempt' = 0
    /\ submitted' = u
    /\ ready_hist' = {}
    /\ probes' = [r \in NormRefs |-> 0]
    /\ passes' = 0
    /\ last_pending' = <<>>
    /\ last_ready' = <<>>
    /\ last_return' = FALSE
    /\ manual' = 0
    /\ UNCHANGED <<edited_image, generated_images, auto_result>>

\* st.session_state.pending_urls = ...; auto_check_images(status_container)
StartPolling(u) ==
    /\ pending_urls' = u
    /\ pc' = "polling"
    /\ attempt' = 0
    /\ submitted' = u
    /\ ready_hist' = {}
    /\ probes' = [r \in NormRefs |-> 0]
    /\ passes' = 0
    /\ last_pending' = <<>>
    /\ last_ready' = <<>>
    /\ last_return' = FALSE
    /\ manual' = 0
    /\ UNCHANGED <<edited_image, generated_images, auto_result>>

\* the script run ends without polling
NoPolling ==
    /\ pc' = "idle"
    /\ UNCHANGED <<pending_urls, edited_image, generated_images, attempt, auto_result,
                   submitted, ready_hist, probes, passes, last_pending, last_ready,
                   last_return, manual>>

\* what "Generate Lifestyle Shot" without sync_mode (by text, and the same by
\* image) leaves in the local urls, over the responses and requested counts
LifestyleSubmissions ==
    {IF Truthy(r) THEN LifestyleAsyncUrls(r, k) ELSE <<>> :
        r \in SubmitResponses, k \in 1..MaxPending}

\* "if urls:" stores the list and polls; otherwise the script run ends
SubmitLifestyleAsync ==
    /\ pc \in {"idle", "returned"}
    /\ \E u \in LifestyleSubmissions :
          IF u # <<>> THEN StartPolling(u) ELSE NoPolling
    /\ UNCHANGED <<normVars, geomVars, expandVars, requestVars, passVars>>

\* what "Generate" of the generative fill tab without sync_mode assigns to
\* pending_urls, over the responses and requested counts; a falsy response skips
\* the block, and result["urls"] of a response without that key raises
GenerativeFillSubmissions ==
    {[stored |-> Truthy(r) /\ IsDict(r) /\ Has(r, "urls"),
      urls   |-> IF Truthy(r) /\ IsDict(r) /\ Has(r, "urls") THEN FlatUrls(r, k) ELSE <<>>] :
        r \in SubmitResponses, k \in 1..MaxPending}

\* the list is stored, empty or not, and polled
SubmitGenerativeFillAsync ==
    /\ pc \in {"idle", "returned"}
    /\ \E s \in GenerativeFillSubmissions :
          IF s.stored THEN StartPolling(s.urls) ELSE NoPolling
    /\ UNCHANGED <<normVars, geomVars, expandVars, requestVars, passVars>>

(***************************************************************************)
(* The session: submissions and polling                                    *)
(***************************************************************************)
InitSession ==
    /\ pending_urls = <<>>
    /\ edited_image = None
    /\ generated_images = <<>>

InitPoll ==
    /\ pc = "idle"
    /\ attempt = 0
    /\ auto_result = FALSE
    /\ submitted = <<>>
    /\ ready_hist = {}
    /\ probes = [r \in NormRefs |-> 0]
    /\ passes = 0
    /\ last_pending = <<>>
    /\ last_ready = <<>>
    /\ last_return = FALSE
    /\ manual = 0

InitNorm ==
    /\ result = NoneResponse
    /\ num_results = 1
    /\ site = "none"
    /\ urls = <<>>
    /\ message = "none"

InitGeom ==
    /\ original_width = 1
    /\ original_height = 1
    /\ x_start_ratio = 0
    /\ y_start_ratio = 0
    /\ mask_width_ratio = 1
    /\ mask_height_ratio = 1
    /\ tab = "none"
    /\ x_start = 0
    /\ y_start = 0
    /\ mask_width = 0
    /\ mask_height = 0
    /\ mask_img = NewImage(0, 0)

InitExpand ==
    /\ api_key = ""
    /\ left_expand_ratio = 0
    /\ right_expand_ratio = 0
    /\ top_expand_ratio = 0
    /\ bottom_expand_ratio = 0
    /\ canvas_size = <<0, 0>>
    /\ original_image_size = <<0, 0>>
    /\ original_image_location = <<0, 0>>
    /\ expand = "none"
    /\ image_data = ""
    /\ image_url = ""
    /\ sync = TRUE
    /\ called = "none"
    /\ posted = <<>>
    /\ raised = "none"

InitRequest ==
    /\ shot_type = "Text Prompt"
    /\ placement_type = Original
    /\ widgets \in WidgetsOf(Original)
    /\ prompt = ""
    /\ ref_image = ""
    /\ lifestyle = "none"
    /\ lifestyle_calls = <<>>

InitPass ==
    /\ loop = "none"
    /\ index = 0
    /\ loop_ready = <<>>
    /\ loop_pending = <<>>
    /\ head_outcomes = <<>>
    /\ returned = FALSE
    /\ on_entry = [pending_urls |-> <<>>, edited_image |-> None, generated_images |-> <<>>]

Init ==
    InitSession /\ InitPoll /\ InitNorm /\ InitGeom /\ InitExpand /\ InitRequest /\ InitPass

Next ==
    \/ SubmitLifestyleAsync
    \/ SubmitGenerativeFillAsync
    \/ AutoCheckPass
    \/ AutoCheckReturn
    \/ ManualCheck

Spec == Init /\ [][Next]_vars

\* auto_check_images runs to its end: the sleep is over after 2 seconds, every
\* probe answers or raises, and the loop is left when its condition fails
SpecFair == Spec /\ WF_vars(AutoCheckPass) /\ WF_vars(AutoCheckReturn)

(***************************************************************************)
(* One call of check_generated_images, statement by statement, from every  *)
(* session state                                                           *)
(***************************************************************************)
\* the pending lists a call can find: no url twice, at most MaxPending urls
PassPending == {Take(l, MaxPending) : l \in UrlLists}

InitCheck ==
    /\ pending_urls \in PassPending
    /\ edited_image \in {None, SingularRef}
    /\ generated_images \in {<<>>, Reverse(Ascending)}
    /\ InitPoll
    /\ InitNorm
    /\ InitGeom
    /\ InitExpand
    /\ InitRequest
    /\ InitPass

\* variant: the except clause is missing
HandleUncaught(o) ==
    IF o = "exception" THEN "raise" ELSE IF ProbeReady(o) THEN "ready" ELSE "pending"

\* the body of the for loop: try / if status_code == 200 / else / except Exception
Handle(o) ==
    IF o = "exception" THEN "pending" ELSE IF ProbeReady(o) THEN "ready" ELSE "pending"

\* "if st.session_state.pending_urls:" with a non-empty list: the two lists are
\* created
EnterCheck ==
    /\ loop = "none"
    /\ pending_urls # <<>>
    /\ loop' = "for"
    /\ index' = 0
    /\ loop_ready' = <<>>
    /\ loop_pending' = <<>>
    /\ on_entry' = [pending_urls |-> pending_urls, edited_image |-> edited_image,
                  generated_images |-> generated_images]
    /\ UNCHANGED <<pending_urls, edited_image, generated_images, pollVars, normVars,
                   geomVars, expandVars, requestVars, head_outcomes, returned>>

\* the same with an empty list: return False
SkipCheck ==
    /\ loop = "none"
    /\ pending_urls = <<>>
    /\ loop' = "returned"
    /\ returned' = FALSE
    /\ on_entry' = [pending_urls |-> pending_urls, edited_image |-> edited_image,
                  generated_images |-> generated_images]
    /\ UNCHANGED <<pending_urls, edited_image, generated_images, pollVars, normVars,
                   geomVars, expandVars, requestVars, index, loop_ready, loop_pending,
                   head_outcomes>>

\* one iteration of "for url in st.session_state.pending_urls"
ProbeUrl ==
    /\ loop = "for"
    /\ index < Len(pending_urls)
    /\ \E o \in ProbeOutcomes :
          LET url == pending_urls[index + 1]
              h   == Handle(o)
          IN  /\ head_outcomes' = Append(head_outcomes, o)
              /\ loop_ready' = IF h = "ready" THEN Append(loop_ready, url)
                                                ELSE loop_ready
              /\ loop_pending' = IF h = "pending" THEN Append(loop_pending, url)
                                                   ELSE loop_pending
              /\ loop' = IF h = "raise" THEN "raised" ELSE "for"
    /\ index' = index + 1
    /\ UNCHANGED <<pending_urls, edited_image, generated_images, pollVars, normVars,
                   geomVars, expandVars, requestVars, returned, on_entry>>

\* after the loop: pending_urls = still_pending, "if ready_images:" ... return
FinishCheck ==
    /\ loop = "for"
    /\ index = Len(pending_urls)
    /\ pending_urls' = loop_pending
    /\ edited_image' = NewEditedImage(loop_ready, edited_image)
    /\ generated_images' = NewGeneratedImages(loop_ready, generated_images)
    /\ returned' = (loop_ready # <<>>)
    /\ loop' = "returned"
    /\ UNCHANGED <<pollVars, normVars, geomVars, expandVars, requestVars, index,
                   loop_ready, loop_pending, head_outcomes, on_entry>>

NextCheck ==
    \/ EnterCheck
    \/ SkipCheck
    \/ ProbeUrl
    \/ FinishCheck

SpecCheck == InitCheck /\ [][NextCheck]_vars

(***************************************************************************)
(* The normalisations applied to every response                            *)
(***************************************************************************)
InitNormalize ==
    /\ InitSession
    /\ InitRequest
    /\ InitPass
    /\ InitPoll
    /\ InitGeom
    /\ InitExpand
    /\ result \in Responses
    /\ num_results \in 1..MaxResults
    /\ site = "none"
    /\ urls = <<>>
    /\ message = "none"

\* the generate tab
NormalizeGenerate ==
    /\ site = "none"
    /\ LET o == GenerateNormalize(result, edited_image)
       IN  /\ edited_image' = o.edited_image
           /\ message' = o.message
    /\ site' = "generate"
    /\ UNCHANGED <<pending_urls, generated_images, pollVars, geomVars, expandVars, requestVars, passVars, result, num_results, urls>>

\* the lifestyle tabs with sync_mode
NormalizeLifestyleSync ==
    /\ site = "none"
    /\ LET o == LifestyleSyncNormalize(result, edited_image)
       IN  /\ edited_image' = o.edited_image
           /\ message' = o.message
    /\ site' = "lifestyle_sync"
    /\ UNCHANGED <<pending_urls, generated_images, pollVars, geomVars, expandVars, requestVars, passVars, result, num_results, urls>>

\* the lifestyle tabs without sync_mode, up to "if urls:" and the assignment
NormalizeLifestyleAsync ==
    /\ site = "none"
    /\ LET u == IF Truthy(result) THEN LifestyleAsyncUrls(result, num_results) ELSE <<>>
       IN  /\ urls' = u
           /\ pending_urls' = IF u # <<>> THEN u ELSE pending_urls
           /\ message' = IF u # <<>> THEN "info" ELSE "none"
    /\ site' = "lifestyle_async"
    /\ UNCHANGED <<edited_image, generated_images, pollVars, geomVars, expandVars, requestVars, passVars, result, num_results>>

\* the generative fill tab without sync_mode, up to the assignment
NormalizeGenerativeFillAsync ==
    /\ site = "none"
    /\ IF ~Truthy(result)
         THEN /\ message' = "none"
              /\ UNCHANGED <<pending_urls, urls>>
         ELSE IF IsDict(result) /\ Has(result, "urls")
           THEN /\ urls' = FlatUrls(result, num_results)
                /\ pending_urls' = urls'
                /\ message' = "info"
           ELSE /\ message' = "error"
                /\ UNCHANGED <<pending_urls, urls>>
    /\ site' = "genfill_async"
    /\ UNCHANGED <<edited_image, generated_images, pollVars, geomVars, expandVars, requestVars, passVars, result, num_results>>

\* the generative fill tab with sync_mode
NormalizeGenerativeFillSync ==
    /\ site = "none"
    /\ \E o \in GenerativeFillSyncNormalize(result, edited_image, generated_images) :
          /\ edited_image' = o.edited_image
          /\ generated_images' = o.generated_images
          /\ message' = o.message
    /\ site' = "genfill_sync"
    /\ UNCHANGED <<pending_urls, pollVars, geomVars, expandVars, requestVars, passVars, result, num_results, urls>>

NextNormalize ==
    \/ NormalizeGenerate
    \/ NormalizeLifestyleSync
    \/ NormalizeGenerativeFillSync
    \/ NormalizeLifestyleAsync
    \/ NormalizeGenerativeFillAsync

SpecNormalize == InitNormalize /\ [][NextNormalize]_vars

(***************************************************************************)
(* The mask regions computed for every image size and slider setting       *)
(***************************************************************************)
InitGeometry ==
    /\ InitSession
    /\ InitRequest
    /\ InitPass
    /\ InitPoll
    /\ InitNorm
    /\ InitExpand
    /\ original_width \in 1..MaxDim
    /\ original_height \in 1..MaxDim
    /\ x_start_ratio \in 0..RatioDen
    /\ y_start_ratio \in 0..RatioDen
    /\ mask_width_ratio \in 1..RatioDen
    /\ mask_height_ratio \in 1..RatioDen
    /\ tab = "none"
    /\ x_start = 0
    /\ y_start = 0
    /\ mask_width = 0
    /\ mask_height = 0
    /\ mask_img = NewImage(0, 0)

\* the region and the mask of a tab are computed from the image and the sliders
Computed(region, mask) ==
    /\ x_start' = region.x_start
    /\ y_start' = region.y_start
    /\ mask_width' = region.mask_width
    /\ mask_height' = region.mask_height
    /\ mask_img' = mask
    /\ UNCHANGED <<pending_urls, edited_image, generated_images, pollVars, normVars,
                   original_width, original_height, x_start_ratio, y_start_ratio,
                   mask_width_ratio, mask_height_ratio, expandVars,
                   requestVars, passVars>>

\* the generative fill tab with an uploaded image
DefineGenerativeFillMask ==
    /\ tab = "none"
    /\ tab' = "generative_fill"
    /\ LET region == GenerativeFillRegion(original_width, original_height, x_start_ratio,
                                          y_start_ratio, mask_width_ratio, mask_height_ratio)
       IN  Computed(region, GenerativeFillMask(original_width, original_height, region))

\* the erase tab with an uploaded image
DefineEraseMask ==
    /\ tab = "none"
    /\ tab' = "erase"
    /\ LET region == EraseRegion(original_width, original_height, x_start_ratio,
                                 y_start_ratio, mask_width_ratio, mask_height_ratio)
       IN  Computed(region, EraseMask(original_width, original_height, region))

NextGeometry ==
    \/ DefineGenerativeFillMask
    \/ DefineEraseMask

SpecGeometry == InitGeometry /\ [][NextGeometry]_vars

(***************************************************************************)
(* The region computation alone, also for images larger than those whose   *)
(* mask is drawn above                                                     *)
(***************************************************************************)
InitRegion ==
    /\ InitSession
    /\ InitRequest
    /\ InitPass
    /\ InitPoll
    /\ InitNorm
    /\ InitExpand
    /\ original_width \in RegionWidths
    /\ original_height \in RegionHeights
    /\ x_start_ratio \in 0..RatioDen
    /\ y_start_ratio \in 0..RatioDen
    /\ mask_width_ratio \in 1..RatioDen
    /\ mask_height_ratio \in 1..RatioDen
    /\ tab = "none"
    /\ x_start = 0
    /\ y_start = 0
    /\ mask_width = 0
    /\ mask_height = 0
    /\ mask_img = NewImage(0, 0)

\* the generative fill tab up to "Ensure mask doesn't go out of bounds"
ComputeGenerativeFillRegion ==
    /\ tab = "none"
    /\ tab' = "generative_fill"
    /\ Computed(GenerativeFillRegion(original_width, original_height, x_start_ratio,
                                     y_start_ratio, mask_width_ratio, mask_height_ratio),
                mask_img)

\* the erase tab up to "Ensure mask doesn't go out of bounds"
ComputeEraseRegion ==
    /\ tab = "none"
    /\ tab' = "erase"
    /\ Computed(EraseRegion(original_width, original_height, x_start_ratio,
                            y_start_ratio, mask_width_ratio, mask_height_ratio),
                mask_img)

NextRegion ==
    \/ ComputeGenerativeFillRegion
    \/ ComputeEraseRegion

SpecRegion == InitRegion /\ [][NextRegion]_vars

(***************************************************************************)
(* The expansion tab for every image size and slider setting               *)
(***************************************************************************)
InitExpansion ==
    /\ InitSession
    /\ InitRequest
    /\ InitPass
    /\ InitPoll
    /\ InitNorm
    /\ original_width \in ExpandWidths
    /\ original_height \in ExpandHeights
    /\ x_start_ratio = 0
    /\ y_start_ratio = 0
    /\ mask_width_ratio = 1
    /\ mask_height_ratio = 1
    /\ tab = "none"
    /\ x_start = 0
    /\ y_start = 0
    /\ mask_width = 0
    /\ mask_height = 0
    /\ mask_img = NewImage(0, 0)
    /\ api_key \in {"", "key"}
    /\ left_expand_ratio \in 0..MaxExpand
    /\ right_expand_ratio \in 0..MaxExpand
    /\ top_expand_ratio \in 0..MaxExpand
    /\ bottom_expand_ratio \in 0..MaxExpand
    /\ canvas_size = <<0, 0>>
    /\ original_image_size = <<0, 0>>
    /\ original_image_location = <<0, 0>>
    /\ expand = "none"
    /\ image_data = ""
    /\ image_url = ""
    /\ sync = TRUE
    /\ called = "none"
    /\ posted = <<>>
    /\ raised = "none"

\* "Expand Image" without an API key: st.error, nothing is computed or sent
ExpandWithoutKey ==
    /\ expand = "none"
    /\ api_key = ""
    /\ expand' = "no_key"
    /\ UNCHANGED <<pending_urls, edited_image, generated_images, pollVars, normVars,
                   geomVars, requestVars, passVars, api_key, left_expand_ratio, right_expand_ratio,
                   top_expand_ratio, bottom_expand_ratio, canvas_size,
                   original_image_size, original_image_location, image_data, image_url,
                   sync, called, posted, raised>>

\* "Expand Image" with an API key: the placement is computed, the image is saved
\* to bytes and expand_image is called; its exception is shown by st.error
ExpandWithKey ==
    /\ expand = "none"
    /\ api_key # ""
    /\ LET placement == ExpansionPlacement(original_width, original_height,
                                           left_expand_ratio, right_expand_ratio,
                                           top_expand_ratio, bottom_expand_ratio)
       IN  /\ canvas_size' = placement.canvas_size
           /\ original_image_size' = placement.original_image_size
           /\ original_image_location' = placement.original_image_location
           /\ image_data' = "image"
           /\ \E reply \in Replies :
                 LET o == ExpandImage(api_key, "image", placement.canvas_size,
                                      placement.original_image_size,
                                      placement.original_image_location, TRUE, reply)
                 IN  /\ posted' = posted \o o.posted
                     /\ raised' = o.raised
                     /\ expand' = IF o.raised = "none" THEN "returned" ELSE "failed"
    /\ called' = "expand_image"
    /\ UNCHANGED <<pending_urls, edited_image, generated_images, pollVars, normVars,
                   geomVars, requestVars, passVars, api_key, left_expand_ratio, right_expand_ratio,
                   top_expand_ratio, bottom_expand_ratio, image_url, sync>>

NextExpansion ==
    \/ ExpandWithoutKey
    \/ ExpandWithKey

SpecExpansion == InitExpansion /\ [][NextExpansion]_vars

(***************************************************************************)
(* services/image_expansion.py called directly: one call of expand_image   *)
(* or of expand_image_by_url for every argument                            *)
(***************************************************************************)
\* (width, height) and (x, y) arguments
ServiceSizes == {<<1, 1>>, <<3, 2>>}
ServiceLocations == {<<0, 0>>, <<1, 0>>}

InitService ==
    /\ InitSession
    /\ InitPoll
    /\ InitNorm
    /\ InitGeom
    /\ InitRequest
    /\ InitPass
    /\ api_key \in {"", "key"}
    /\ image_data \in {"", "image"}
    /\ image_url \in {"", "https://host/image.png"}
    /\ canvas_size \in ServiceSizes
    /\ original_image_size \in ServiceSizes
    /\ original_image_location \in ServiceLocations
    /\ sync \in BOOLEAN
    /\ left_expand_ratio = 0
    /\ right_expand_ratio = 0
    /\ top_expand_ratio = 0
    /\ bottom_expand_ratio = 0
    /\ expand = "none"
    /\ called = "none"
    /\ posted = <<>>
    /\ raised = "none"

\* the call has run: what it posted and how it ended
ServiceCall(function, o) ==
    /\ called' = function
    /\ posted' = posted \o o.posted
    /\ raised' = o.raised
    /\ expand' = IF o.raised = "none" THEN "returned" ELSE "failed"
    /\ UNCHANGED <<pending_urls, edited_image, generated_images, pollVars, normVars,
                   geomVars, requestVars, passVars, api_key, left_expand_ratio, right_expand_ratio,
                   top_expand_ratio, bottom_expand_ratio, canvas_size,
                   original_image_size, original_image_location, image_data, image_url,
                   sync>>

CallExpandImage ==
    /\ called = "none"
    /\ \E reply \in Replies :
          ServiceCall("expand_image",
                      ExpandImage(api_key, image_data, canvas_size, original_image_size,
                                  original_image_location, sync, reply))

CallExpandImageByUrl ==
    /\ called = "none"
    /\ \E reply \in Replies :
          ServiceCall("expand_image_by_url",
                      ExpandImageByUrl(api_key, image_url, canvas_size,
                                       original_image_size, original_image_location,
                                       sync, reply))

NextService ==
    \/ CallExpandImage
    \/ CallExpandImageByUrl

SpecService == InitService /\ [][NextService]_vars

(***************************************************************************)
(* The lifestyle shot tab for every placement type and widget setting      *)
(***************************************************************************)
InitLifestyle ==
    /\ InitSession
    /\ InitPoll
    /\ InitNorm
    /\ InitGeom
    /\ InitExpand
    /\ InitPass
    /\ shot_type \in {"Text Prompt", "Reference Image"}
    /\ placement_type \in PlacementTypes
    /\ widgets \in WidgetsOf(placement_type)
    /\ prompt \in {"", "scene"}
    /\ ref_image \in {"", "reference"}
    /\ lifestyle = "none"
    /\ lifestyle_calls = <<>>

\* the try block up to the call: a NameError is shown by st.error and nothing
\* is called; otherwise the function is called with the assembled arguments
AssembleLifestyleCall(function) ==
    IF ReadUnbound(placement_type, widgets) # {}
      THEN /\ lifestyle' = "NameError"
           /\ lifestyle_calls' = lifestyle_calls
      ELSE /\ lifestyle' = "called"
           /\ lifestyle_calls' =
                 Append(lifestyle_calls,
                        [function  |-> function,
                         arguments |-> LifestyleArguments(placement_type, widgets)])

\* if st.button("Generate Lifestyle Shot") and prompt:
GenerateLifestyleByText ==
    /\ lifestyle = "none"
    /\ shot_type = "Text Prompt"
    /\ prompt # ""
    /\ AssembleLifestyleCall("lifestyle_shot_by_text")
    /\ UNCHANGED <<pending_urls, edited_image, generated_images, pollVars, normVars,
                   geomVars, expandVars, shot_type, placement_type, widgets, prompt,
                   ref_image, passVars>>

\* if st.button("Generate Lifestyle Shot") and ref_image:
GenerateLifestyleByImage ==
    /\ lifestyle = "none"
    /\ shot_type = "Reference Image"
    /\ ref_image # ""
    /\ AssembleLifestyleCall("lifestyle_shot_by_image")
    /\ UNCHANGED <<pending_urls, edited_image, generated_images, pollVars, normVars,
                   geomVars, expandVars, shot_type, placement_type, widgets, prompt,
                   ref_image, passVars>>

NextLifestyle ==
    \/ GenerateLifestyleByText
    \/ GenerateLifestyleByImage

SpecLifestyle == InitLifestyle /\ [][NextLifestyle]_vars

(***************************************************************************)
(* Properties                                                              *)
(***************************************************************************)

\* C1: for every image size and every slider setting, the pixel region of the
\* generative fill tab and of the erase tab lies inside the image: 0 <= x_start,
\* 0 <= y_start, x_start + mask_width <= original_width and
\* y_start + mask_height <= original_height.
C1_RegionInsideImage ==
    tab # "none" =>
        /\ 0 <= x_start
        /\ 0 <= y_start
        /\ x_start + mask_width <= original_width
        /\ y_start + mask_height <= original_height

\* a generative fill region that had to be clipped at the far edges
C1_Witness ==
    /\ tab = "generative_fill"
    /\ PixelOf(original_width, x_start_ratio)
         + PixelOf(original_width, mask_width_ratio) > original_width
    /\ PixelOf(original_height, y_start_ratio)
         + PixelOf(original_height, mask_height_ratio) > original_height
    /\ x_start + mask_width = original_width
    /\ y_start + mask_height = original_height
    /\ mask_width > 0

\* C2: when no probe ever succeeds, auto_check_images makes exactly 3 passes,
\* each pending url is probed exactly 3 times, nothing is reported ready and the
\* function returns False; no run makes a 4th pass.
C2_ExactlyThreePasses ==
    /\ passes <= 3
    /\ (pc = "returned" /\ manual = 0 /\ submitted # <<>> /\ ready_hist = {}) =>
          /\ passes = 3
          /\ \A r \in NormRefs : probes[r] = IF r \in Range(submitted) THEN 3 ELSE 0
          /\ auto_result = FALSE
          /\ last_ready = <<>>
          /\ pending_urls = submitted

\* three failed passes over several pending urls, after which the check returned
C2_Witness ==
    /\ pc = "returned"
    /\ manual = 0
    /\ Len(submitted) >= 2
    /\ ready_hist = {}
    /\ passes = 3
    /\ auto_result = FALSE

\* C3 (as claimed): auto_check_images returns with attempts left only when the
\* pending list has become empty.
C3_EarlyStopOnlyWhenEmpty ==
    (pc = "returned" /\ attempt < max_attempts) => pending_urls = <<>>

\* C3 (amended): auto_check_images returns with attempts left only when the
\* pending list is empty or the last pass found a url ready (it then returns True
\* at once, other urls may still be pending); while attempts remain and a url is
\* pending, the loop does not exit without another pass.
C3_EarlyStopOnlyWhenReadyOrEmpty ==
    /\ (pc = "returned" /\ attempt < max_attempts) =>
          \/ pending_urls = <<>>
          \/ auto_result /\ last_ready # <<>>
    /\ (pc = "polling" /\ attempt < max_attempts /\ pending_urls # <<>>) =>
          /\ ENABLED AutoCheckPass
          /\ ~ENABLED AutoCheckReturn

\* the automatic check returned True on its second pass with a url still pending
C3_Witness ==
    /\ pc = "returned"
    /\ attempt = 1
    /\ auto_result
    /\ pending_urls # <<>>
    /\ last_ready # <<>>

\* a response that is a non-empty dict with none of the recognised shapes
Unrecognized(r) ==
    /\ Truthy(r)
    /\ IsDict(r)
    /\ ~Has(r, "result_url")
    /\ ~Has(r, "result_urls")
    /\ ~Has(r, "urls")
    /\ ~HasResultList(r)

\* C4: a response that matches none of the recognised shapes is reported as an
\* error by the normalisation; it never ends silently without a result.
C4_UnrecognizedReported ==
    (site \in {"generate", "lifestyle_sync", "lifestyle_async"} /\ Unrecognized(result))
        => message = "error"

\* C5 (as claimed): when auto_check_images returns with its attempts used up, no
\* job is left pending (the jobs not ready are in a state of their own, Expired).
C5_NoJobLeftPending ==
    (pc = "returned" /\ manual = 0 /\ auto_result = FALSE /\ attempt = max_attempts)
        => pending_urls = <<>>

\* C5 (amended): when auto_check_images returns with its attempts used up, every
\* job that is not ready is still in pending_urls, in submission order; there is
\* no other state for it.
C5_ExhaustedJobsStayPending ==
    (pc = "returned" /\ manual = 0 /\ auto_result = FALSE /\ attempt = max_attempts)
        => /\ pending_urls = submitted
           /\ pending_urls # <<>>
           /\ ready_hist = {}

\* the budget was used up on probes that raised and probes that answered non-200
C5_Witness ==
    /\ pc = "returned"
    /\ manual = 0
    /\ auto_result = FALSE
    /\ attempt = max_attempts
    /\ Len(pending_urls) >= 2
    /\ pending_urls = submitted

\* C6: a polling pass only removes urls from the pending list: the list after the
\* pass is a sub-sequence of the list before it, and no url found ready, in this
\* pass or an earlier one, is pending afterwards.
C6_NeverReentersPending ==
    [][(passes' = passes + 1 \/ manual' = manual + 1) =>
          /\ IsSubSeq(pending_urls', pending_urls)
          /\ ready_hist' \cap Range(pending_urls') = {}]_vars

\* a pass promoted some urls and left others pending
C6_Witness ==
    /\ last_ready # <<>>
    /\ pending_urls # <<>>
    /\ Len(pending_urls) + Len(last_ready) = Len(last_pending)
    /\ Len(last_pending) >= 3

\* the urls of s that are in the set ready, in the order of s
InOrder(s, ready) == SelectSeq(s, LAMBDA u : u \in ready)

\* C7: after any polling passes over a submission, generated_images holds every
\* url found ready so far, in submission order.
C7_ResultListHoldsAllReady ==
    ready_hist # {} => generated_images = InOrder(submitted, ready_hist)

\* C8: after polling passes over a submission in which a url became ready,
\* edited_image is the first-submitted url among all urls found ready.
C8_PrimaryIsFirstSubmittedReady ==
    ready_hist # {} => edited_image = InOrder(submitted, ready_hist)[1]

\* several urls are ready, the first submitted one is not among them
C8_Witness ==
    /\ Cardinality(ready_hist) >= 2
    /\ submitted[1] \notin ready_hist
    /\ edited_image = InOrder(submitted, ready_hist)[1]

\* C9: a response with a flat list "urls" of n references and a requested count
\* k gives exactly the first min(n, k) references of the list, in their order.
C9_FlatListTruncated ==
    (site \in {"lifestyle_async", "genfill_async"} /\ IsDict(result) /\ Has(result, "urls"))
        => /\ Len(urls) = Min(Len(result.urls), num_results)
           /\ \A i \in 1..Len(urls) : urls[i] = result.urls[i]
           /\ urls # <<>> => pending_urls = urls

\* 5 references, 3 requested: the first 3, in the order of the response
C9_Witness ==
    /\ site = "lifestyle_async"
    /\ Has(result, "urls")
    /\ Len(result.urls) = 5
    /\ result.urls[1] > result.urls[2]
    /\ num_results = 3
    /\ urls = <<result.urls[1], result.urls[2], result.urls[3]>>

\* the reference lists of the items, one after the other
RECURSIVE Concatenation(_)
Concatenation(items) ==
    IF items = <<>> THEN <<>> ELSE Head(items).urls \o Concatenation(Tail(items))

\* C10: a nested response and a requested count k give exactly the first
\* min(k, total) references of the concatenation of the items' reference lists,
\* cutting inside an item when needed.
C10_NestedListTruncated ==
    (site = "lifestyle_async" /\ IsDict(result) /\ ~Has(result, "urls")
       /\ HasResultList(result))
        => LET flat == Concatenation(result.result)
           IN  /\ Len(urls) = Min(num_results, Len(flat))
               /\ \A i \in 1..Len(urls) : urls[i] = flat[i]

\* items of 2 and 3 references, 4 requested: both of item 1, the first 2 of item 2
C10_Witness ==
    /\ site = "lifestyle_async"
    /\ ~Has(result, "urls")
    /\ HasResultList(result)
    /\ Len(result.result) = 2
    /\ Len(result.result[1].urls) = 2
    /\ Len(result.result[2].urls) = 3
    /\ num_results = 4
    /\ urls = result.result[1].urls \o SubSeq(result.result[2].urls, 1, 2)

\* C11: a response that carries "result_url" together with a flat reference list
\* and/or a nested item list gives exactly the one singular reference, at the
\* generate tab, the lifestyle tabs with sync_mode and the generative fill tab
\* with sync_mode.
C11_SingularReferenceFirst ==
    (/\ site \in {"generate", "lifestyle_sync", "genfill_sync"}
     /\ IsDict(result)
     /\ Has(result, "result_url")
     /\ (Has(result, "result_urls") \/ Has(result, "urls") \/ HasResultList(result)))
        => /\ edited_image = result.result_url
           /\ generated_images = <<>>
           /\ message = "success"

C13_OriginalInsideCanvas ==
    called = "expand_image" =>
        /\ original_image_location[1] + original_image_size[1] <= canvas_size[1]
        /\ original_image_location[2] + original_image_size[2] <= canvas_size[2]

\* C14: a region that would pass the far edge (x_start + int(width * ratio) >
\* original_width) is clipped to original_width - x_start with x_start =
\* int(original_width * x_start_ratio) unchanged; otherwise its width is
\* int(original_width * mask_width_ratio); the same for the height.  A 1000 pixel
\* wide image with x_start_ratio 0.9 and mask_width_ratio 0.3 gives x_start = 900
\* and mask_width = 100.
C14_ClippedAtFarEdge ==
    tab # "none" =>
        /\ x_start = PixelOf(original_width, x_start_ratio)
        /\ y_start = PixelOf(original_height, y_start_ratio)
        /\ mask_width =
              IF x_start + PixelOf(original_width, mask_width_ratio) > original_width
                THEN original_width - x_start
                ELSE PixelOf(original_width, mask_width_ratio)
        /\ mask_height =
              IF y_start + PixelOf(original_height, mask_height_ratio) > original_height
                THEN original_height - y_start
                ELSE PixelOf(original_height, mask_height_ratio)
        /\ (/\ original_width = 1000
            /\ 10 * x_start_ratio = 9 * RatioDen
            /\ 10 * mask_width_ratio = 3 * RatioDen)
              => x_start = 900 /\ mask_width = 100

\* the 1000 x 800 image with x_start_ratio 0.9 and mask_width_ratio 0.3: the
\* width is clipped from 300 to 100, the height is not clipped
C14_Witness ==
    /\ tab = "generative_fill"
    /\ original_width = 1000
    /\ original_height = 800
    /\ 10 * x_start_ratio = 9 * RatioDen
    /\ 10 * mask_width_ratio = 3 * RatioDen
    /\ PixelOf(original_width, mask_width_ratio) = 300
    /\ x_start = 900
    /\ mask_width = 100
    /\ mask_height = PixelOf(original_height, mask_height_ratio)
    /\ mask_height < original_height - y_start

\* C15: the placement is canvas_size = (int(W * (1 + left + right)),
\* int(H * (1 + top + bottom))) and original_image_location = (int(W * left),
\* int(H * top)), in the program's float arithmetic; an 800 x 600 image with
\* left = right = 0.5 and top = bottom = 0 gives canvas_size = (1600, 600) and
\* original_image_location = (400, 0).
C15_PlacementFormula ==
    called = "expand_image" =>
        /\ canvas_size =
              <<Trunc(FMul(original_width,
                           FAdd(FAdd(FromInt(1), Decimal(left_expand_ratio, ExpandDen)),
                                Decimal(right_expand_ratio, ExpandDen)))),
                Trunc(FMul(original_height,
                           FAdd(FAdd(FromInt(1), Decimal(top_expand_ratio, ExpandDen)),
                                Decimal(bottom_expand_ratio, ExpandDen))))>>
        /\ original_image_location =
              <<Trunc(FMul(original_width, Decimal(left_expand_ratio, ExpandDen))),
                Trunc(FMul(original_height, Decimal(top_expand_ratio, ExpandDen)))>>
        /\ original_image_size = <<original_width, original_height>>
        /\ (/\ original_width = 800 /\ original_height = 600
            /\ left_expand_ratio = 5 /\ right_expand_ratio = 5
            /\ top_expand_ratio = 0 /\ bottom_expand_ratio = 0)
              => canvas_size = <<1600, 600>> /\ original_image_location = <<400, 0>>

\* the 800 x 600 image expanded by 0.5 to the left and to the right
C15_Witness ==
    /\ called = "expand_image"
    /\ original_image_size = <<800, 600>>
    /\ left_expand_ratio = 5 /\ right_expand_ratio = 5
    /\ top_expand_ratio = 0 /\ bottom_expand_ratio = 0
    /\ canvas_size = <<1600, 600>>
    /\ original_image_location = <<400, 0>>
    /\ Len(posted) = 1
    /\ posted[1].json.canvas_size = <<1600, 600>>

\* C16: with all four edge ratios equal to 0 the placement is the identity:
\* canvas_size is the original size and original_image_location is (0, 0), for
\* every original size.
C16_ZeroRatiosIdentity ==
    (/\ called = "expand_image"
     /\ left_expand_ratio = 0 /\ right_expand_ratio = 0
     /\ top_expand_ratio = 0 /\ bottom_expand_ratio = 0)
        => /\ canvas_size = <<original_width, original_height>>
           /\ canvas_size = original_image_size
           /\ original_image_location = <<0, 0>>

\* an image that is not square, placed with all ratios 0
C16_Witness ==
    /\ called = "expand_image"
    /\ left_expand_ratio = 0 /\ right_expand_ratio = 0
    /\ top_expand_ratio = 0 /\ bottom_expand_ratio = 0
    /\ original_width > original_height
    /\ original_height > 1
    /\ canvas_size = <<original_width, original_height>>
    /\ original_image_location = <<0, 0>>

\* the urls of s whose probe, at the same position, gave an outcome of the set
Probing(s, probe, outcomes) ==
    SelectSeq(s, LAMBDA u : \E i \in 1..Len(s) : s[i] = u /\ probe[i] \in outcomes)

\* C17: when auto_check_images has used up its attempts with jobs still not
\* ready, those jobs are still in pending_urls, unchanged and in order; a manual
\* pass after that can find any of them ready, and the jobs whose probe succeeds
\* in it become ready (the first of them is displayed) while the others stay
\* pending.
C17_RetainedForManualCheck ==
    /\ [](/\ pc = "returned" /\ auto_result = FALSE
           /\ attempt = max_attempts /\ manual = 0
              => /\ pending_urls = submitted
                 /\ pending_urls # <<>>
                 /\ \A i \in 1..Len(pending_urls) :
                       ENABLED (ManualCheck /\ pending_urls[i] \in ready_hist'))
    /\ [][manual' = manual + 1 =>
            /\ pending_urls = submitted
            /\ \E probe \in ProbeRuns(pending_urls) :
                  /\ last_ready' = Probing(pending_urls, probe, {"200"})
                  /\ pending_urls' = Probing(pending_urls, probe, {"404", "exception"})
                  /\ ready_hist' = Range(last_ready')
                  /\ last_return' = (last_ready' # <<>>)
                  /\ last_ready' # <<>> => edited_image' = last_ready'[1]]_vars

\* after three failed passes over three jobs the manual pass found the second
\* job ready; the first and the third are still pending
C17_Witness ==
    /\ manual = 1
    /\ passes = max_attempts
    /\ attempt = max_attempts
    /\ Len(submitted) = 3
    /\ last_ready = <<submitted[2]>>
    /\ pending_urls = <<submitted[1], submitted[3]>>
    /\ edited_image = submitted[2]

\* C18: in a lifestyle request the parameter groups of the placement modes that
\* are not selected are sent as null: padding_values unless the mode is
\* manual_padding, manual_placement_selection unless it is manual_placement,
\* foreground_image_size and foreground_image_location unless it is
\* custom_coordinates.
C18_OtherModesNull ==
    \A i \in 1..Len(lifestyle_calls) :
        LET a == lifestyle_calls[i].arguments
        IN  /\ a.placement_type # ApiName(ManualPadding) => a.padding_values = Null
            /\ a.placement_type # ApiName(ManualPlacement)
                  => a.manual_placement_selection = Null
            /\ a.placement_type # ApiName(CustomCoordinates)
                  => /\ a.foreground_image_size = Null
                     /\ a.foreground_image_location = Null

\* C18 (amended): foreground_image_size and foreground_image_location are null
\* unless the mode is custom_coordinates; padding_values is [0, 0, 0, 0] unless
\* the mode is manual_padding and manual_placement_selection is ["upper_left"]
\* unless the mode is manual_placement: these two are never null.
C18_OtherModesNullOrDefault ==
    \A i \in 1..Len(lifestyle_calls) :
        LET a == lifestyle_calls[i].arguments
        IN  /\ a.placement_type # ApiName(ManualPadding)
                  => a.padding_values = Value(<<0, 0, 0, 0>>)
            /\ a.placement_type # ApiName(ManualPlacement)
                  => a.manual_placement_selection
                       = Value(<<<<"u", "p", "p", "e", "r", "_", "l", "e", "f", "t">>>>)
            /\ a.placement_type # ApiName(CustomCoordinates)
                  => /\ a.foreground_image_size = Null
                     /\ a.foreground_image_location = Null
            /\ a.padding_values # Null
            /\ a.manual_placement_selection # Null

\* a request by image was sent in the mode automatic: no foreground size and
\* the default padding
C18_Witness ==
    /\ lifestyle = "called"
    /\ Len(lifestyle_calls) = 1
    /\ lifestyle_calls[1].function = "lifestyle_shot_by_image"
    /\ lifestyle_calls[1].arguments.placement_type = ApiName(Automatic)
    /\ lifestyle_calls[1].arguments.foreground_image_size = Null
    /\ lifestyle_calls[1].arguments.padding_values = Value(<<0, 0, 0, 0>>)

\* C20: expand_image called with empty image data, and expand_image_by_url
\* called with an empty URL, end in an error and nothing was handed to
\* requests.post
C20_EmptyInputRaisesBeforePost ==
    /\ (called = "expand_image" /\ image_data = "")
          => (raised = "ValueError" /\ posted = <<>>)
    /\ (called = "expand_image_by_url" /\ image_url = "")
          => (raised = "ValueError" /\ posted = <<>>)

\* expand_image was called with a key and empty image data and raised
C20_Witness ==
    /\ called = "expand_image"
    /\ api_key # ""
    /\ image_data = ""
    /\ raised = "ValueError"
    /\ posted = <<>>

\* how often r occurs in the list s
Occurrences(s, r) == Cardinality({i \in 1..Len(s) : s[i] = r})

\* C21: one pass of check_generated_images probes every url of the pending list
\* once and no other url; afterwards ready_images and the new pending list
\* partition the list of before the pass, each in the order of that list.
C21_PassProbesAndPartitions ==
    [][(passes' = passes + 1 \/ manual' = manual + 1) =>
          /\ \A r \in NormRefs :
                /\ probes'[r] - probes[r] = Occurrences(pending_urls, r)
                /\ Occurrences(last_ready', r) + Occurrences(pending_urls', r)
                      = Occurrences(pending_urls, r)
          /\ IsSubSeq(last_ready', pending_urls)
          /\ IsSubSeq(pending_urls', pending_urls)
          /\ Len(last_ready') + Len(pending_urls') = Len(pending_urls)]_vars

\* a pass over three pending urls found the first and the last ready
C21_Witness ==
    /\ Len(last_pending) = 3
    /\ last_ready = <<last_pending[1], last_pending[3]>>
    /\ pending_urls = <<last_pending[2]>>
    /\ probes[last_pending[2]] = passes + manual

\* C22: in a call of check_generated_images a probe that raises or answers a
\* status other than 200 leaves its url pending; no exception leaves the call,
\* and every url after that one is probed all the same.
C22_FailedProbeStaysPending ==
    /\ loop # "raised"
    /\ loop = "for" =>
          /\ Len(head_outcomes) = index
          /\ \A i \in 1..index :
                head_outcomes[i] # "200" => on_entry.pending_urls[i] \in Range(loop_pending)
    /\ (loop = "returned" /\ on_entry.pending_urls # <<>>) =>
          /\ Len(head_outcomes) = Len(on_entry.pending_urls)
          /\ \A i \in 1..Len(head_outcomes) :
                head_outcomes[i] # "200" => on_entry.pending_urls[i] \in Range(pending_urls)

\* the first probe raised, the second answered 404, the third answered 200: the
\* call returned True with the first two urls pending
C22_Witness ==
    /\ loop = "returned"
    /\ head_outcomes = <<"exception", "404", "200">>
    /\ returned
    /\ pending_urls = SubSeq(on_entry.pending_urls, 1, 2)
    /\ edited_image = on_entry.pending_urls[3]

\* C23: after an asynchronous submission whose response gave references,
\* pending_urls holds exactly these references, in their order, none of them
\* promoted, and not more of them than the requested number of results.
C23_PendingIsNormalizedList ==
    (site \in {"lifestyle_async", "genfill_async"} /\ urls # <<>>)
        => /\ pending_urls = urls
           /\ Len(pending_urls) <= num_results
           /\ Len(pending_urls) >= 1
           /\ ready_hist = {}
           /\ edited_image = None
           /\ generated_images = <<>>

\* the generative fill tab got 5 references for 2 requested results: 2 are pending
C23_Witness ==
    /\ site = "genfill_async"
    /\ Len(result.urls) = 5
    /\ num_results = 2
    /\ pending_urls = <<result.urls[1], result.urls[2]>>
    /\ pending_urls = urls

\* the placement types of the API
PlacementVocabulary ==
    {<<"o", "r", "i", "g", "i", "n", "a", "l">>,
     <<"a", "u", "t", "o", "m", "a", "t", "i", "c">>,
     <<"m", "a", "n", "u", "a", "l", "_", "p", "l", "a", "c", "e", "m", "e", "n", "t">>,
     <<"m", "a", "n", "u", "a", "l", "_", "p", "a", "d", "d", "i", "n", "g">>,
     <<"c", "u", "s", "t", "o", "m", "_", "c", "o", "o", "r", "d", "i", "n", "a", "t", "e", "s">>}

\* the options of the selectbox map one-to-one onto the placement types of the
\* API, and every call made carries one of them
PlacementLabelsOneToOne ==
    /\ {ApiName(label) : label \in PlacementTypes} = PlacementVocabulary
    /\ \A a, b \in PlacementTypes : ApiName(a) = ApiName(b) => a = b
    /\ ApiName(placement_type) \in PlacementVocabulary
    /\ \A i \in 1..Len(lifestyle_calls) :
          lifestyle_calls[i].arguments.placement_type = ApiName(placement_type)

\* C25: no putpixel of a mask falls outside the image, every pixel written has
\* 0 <= x < original_width and 0 <= y < original_height, and mask_width and
\* mask_height are never negative; with a start ratio of 1 the region is empty
\* and nothing is written.
C25_MaskWritesInsideImage ==
    tab # "none" =>
        /\ ~mask_img.raised
        /\ mask_width >= 0
        /\ mask_height >= 0
        /\ \A p \in DOMAIN mask_img.pixels :
              mask_img.pixels[p] = 255 =>
                 /\ 0 <= p[1] /\ p[1] < original_width
                 /\ 0 <= p[2] /\ p[2] < original_height
        /\ (x_start_ratio = RatioDen \/ y_start_ratio = RatioDen) =>
              /\ mask_width * mask_height = 0
              /\ \A p \in DOMAIN mask_img.pixels : mask_img.pixels[p] = 0

\* the generative fill tab with x_start_ratio = 1 on an image wider than one
\* pixel: the region starts at the right edge, is empty, and the mask is black
C25_Witness ==
    /\ tab = "generative_fill"
    /\ x_start_ratio = RatioDen
    /\ original_width > 1
    /\ x_start = original_width
    /\ mask_width = 0
    /\ mask_height > 0
    /\ ~mask_img.raised
    /\ \A p \in DOMAIN mask_img.pixels : mask_img.pixels[p] = 0

\* C26: for each of the five placement types, "Generate Lifestyle Shot" with
\* the widgets of that type assembles the arguments and makes one call: every
\* name the assembly reads is bound for that type.
C26_EveryTypeDispatches ==
    lifestyle # "none" =>
        /\ ReadUnbound(placement_type, widgets) = {}
        /\ lifestyle = "called"
        /\ Len(lifestyle_calls) = 1

\* C27: check_generated_images returns True exactly when a probe of the call
\* answered 200; when it returns False, with no pending url or with no probe
\* answering 200, edited_image, generated_images and pending_urls (content and
\* order) are as they were before the call.
C27_FalseLeavesStateUnchanged ==
    loop = "returned" =>
        /\ returned = (\E i \in 1..Len(head_outcomes) : head_outcomes[i] = "200")
        /\ Len(head_outcomes) = Len(on_entry.pending_urls)
        /\ ~returned =>
              /\ pending_urls = on_entry.pending_urls
              /\ edited_image = on_entry.edited_image
              /\ generated_images = on_entry.generated_images

\* a call with two pending urls, one probe raising and one answering 404,
\* returned False in a session that already had an image and a result list
C27_Witness ==
    /\ loop = "returned"
    /\ ~returned
    /\ head_outcomes = <<"exception", "404">>
    /\ Len(pending_urls) = 2
    /\ pending_urls = on_entry.pending_urls
    /\ edited_image = SingularRef
    /\ generated_images # <<>>

\* C28: auto_check_images always returns, after at most 3 passes, whatever the
\* probes do and whatever the pending list is; with an empty pending list it
\* returns False at once, without a pass (no sleep, no probe).
C28_AutoCheckTerminates ==
    /\ (pc = "polling") ~> (pc = "returned")
    /\ [](passes <= max_attempts)
    /\ [][(pc = "polling" /\ pending_urls = <<>>) =>
            /\ pc' = "returned"
            /\ auto_result' = FALSE
            /\ passes' = passes
            /\ probes' = probes
            /\ passes = 0]_vars

\* the generative fill tab stored an empty list and auto_check_images returned
\* False without a pass
C28_Witness ==
    /\ pc = "returned"
    /\ submitted = <<>>
    /\ pending_urls = <<>>
    /\ passes = 0
    /\ auto_result = FALSE
    /\ \A r \in NormRefs : probes[r] = 0

\* C29: a submission that stores references replaces the whole pending list;
\* after any submissions and passes the pending list holds only references of
\* the last submission that stored its list, in their order, and a pass probes
\* no other reference.
C29_PendingOwnedByLastSubmission ==
    /\ [](IsSubSeq(pending_urls, submitted))
    /\ [][(pc # "polling" /\ pc' = "polling") =>
            /\ pending_urls' = submitted'
            /\ \A r \in NormRefs : probes'[r] = 0]_vars
    /\ [][(passes' = passes + 1 \/ manual' = manual + 1) =>
            /\ submitted' = submitted
            /\ \A r \in NormRefs : probes'[r] # probes[r] => r \in Range(submitted)]_vars

\* a second submission after one that had a result: a pass probed its two urls
\* once, found none ready, and no url of the earlier submission was probed
C29_Witness ==
    /\ edited_image # None
    /\ edited_image \notin Range(submitted)
    /\ Len(submitted) = 2
    /\ pending_urls = submitted
    /\ passes = 1
    /\ \A r \in NormRefs : probes[r] = IF r \in Range(submitted) THEN 1 ELSE 0

====
